---- MODULE Spec2Model ----
(***************************************************************************)
(* Verification model of the dance competition client:                     *)
(*   - the viewport playback controller of VideoFeedScreen,                *)
(*   - the optimistic like / view mutations of useVideos over the query    *)
(*     cache and the video gateway,                                        *)
(*   - the auth store (setAuth / clearAuth / restoreAuth), the session     *)
(*     validator and the navigator gate.                                   *)
(* Each subsystem has its own specification over the shared variables.     *)
(***************************************************************************)
EXTENDS Integers, Sequences, FiniteSets, Bags, TLC

\* ------------------------------------------------------------------------
\* Bounds of the model
\* ------------------------------------------------------------------------
NumVideos == 3
MaxEvents == 3
MaxMutations == 3
MaxInitialLikes == 1
MaxAuthOps == 2
MaxClock == 3
MaxRestores == 2
MaxBoard == 4

\* ------------------------------------------------------------------------
\* Viewport playback controller (VideoFeedScreen)
\* ------------------------------------------------------------------------
VARIABLES activeVideoIndex, rendered, viewCalls, changes, events

feedVars == <<activeVideoIndex, rendered, viewCalls, changes, events>>

\* backend rows, query cache, like button state, mutations in flight
VARIABLES server, detail, detailInvalidated, list, listInvalidated, isLiked,
          toggles, increments, rolledBack, mutationsStarted, toastsShown

cacheVars == <<server, detail, detailInvalidated, list, listInvalidated, isLiked,
               toggles, increments, rolledBack, mutationsStarted, toastsShown>>

\* secure store, zustand auth state, clock, restoreAuth and the auth mutations
VARIABLES secureStore, user, session, isAuthenticated, isLoading,
          clock, nextTok, restore, ops, opsStarted, logoutSettled

authState == <<user, session, isAuthenticated, isLoading>>

authVars == <<secureStore, authState, clock, nextTok, restore, ops, opsStarted,
              logoutSettled>>

\* history of the gateway calls: incrementViews calls that returned a row,
\* and whether two incrementViews calls were ever in flight together
VARIABLES successes, overlapping

historyVars == <<successes, overlapping>>

\* what a specification of one subsystem leaves alone besides the other
\* subsystems
\* the leaderboard rows of the backend and the ['leaderboard', params] query
VARIABLES board, leaderboard

boardVars == <<board, leaderboard>>

\* history of the like mutations that hold an optimistic write together:
\* how many ran onMutate, the detail entries before the first of them, and
\* whether nothing but failing like mutations has touched the cache since
VARIABLES group

restVars == <<historyVars, boardVars, group>>

vars == <<feedVars, cacheVars, authVars, restVars>>

\* useState(0): the index active at the first render
InitialActiveVideoIndex == 0

\* ViewToken.index is number | null
NullIndex == 0 - 1

FeedIndices == 0 .. (NumVideos - 1)

\* the feed list: the id of the video shown at a list index
VideoIdAt(index) == 100 + index

ViewToken(index) == [index |-> index, item |-> IF index = NullIndex THEN 0 ELSE VideoIdAt(index)]

\* what FlatList can report: nothing, one item, or two neighbours that are
\* both at the 50% threshold
ViewableItemLists ==
    {<<>>}
    \cup {<<ViewToken(i)>> : i \in FeedIndices \cup {NullIndex}}
    \cup {<<ViewToken(i), ViewToken(i + 1)>> : i \in 0 .. (NumVideos - 2)}

\* renderVideoItem: the isActive prop handed to the VideoPlayer of a cell
renderVideoItemKeepsFirst(index, active) == index = active \/ index = InitialActiveVideoIndex
renderVideoItem(index, active) == index = active

\* The callback is created once (useRef(...).current), so the activeVideoIndex
\* it compares against is the one of the first render.
ClosureActiveVideoIndex == InitialActiveVideoIndex

ActivatesItem(viewableItems) ==
    /\ Len(viewableItems) > 0
    /\ viewableItems[1].index # NullIndex
    /\ viewableItems[1].index # ClosureActiveVideoIndex

\* incrementViewsMutation.mutate(visibleVideo.id), guarded by visibleVideo?.id
MutateCallsDropped(viewableItems, calls) == calls
MutateCalls(viewableItems, calls) ==
    IF ActivatesItem(viewableItems) /\ viewableItems[1].item # 0
    THEN Append(calls, viewableItems[1].item)
    ELSE calls

OnViewableItemsChanged(viewableItems) ==
    /\ Len(events) < MaxEvents
    /\ activeVideoIndex' =
          IF ActivatesItem(viewableItems) THEN viewableItems[1].index ELSE activeVideoIndex
    /\ viewCalls' = MutateCalls(viewableItems, viewCalls)
    /\ rendered' = [i \in FeedIndices |-> renderVideoItem(i, activeVideoIndex')]
    /\ changes' = IF activeVideoIndex' # activeVideoIndex THEN changes + 1 ELSE changes
    /\ events' = Append(events, viewableItems)

FeedInit ==
    /\ activeVideoIndex = InitialActiveVideoIndex
    /\ rendered = [i \in FeedIndices |-> renderVideoItem(i, InitialActiveVideoIndex)]
    /\ viewCalls = <<>>
    /\ changes = 0
    /\ events = <<>>

FeedNext == \E viewableItems \in ViewableItemLists : OnViewableItemsChanged(viewableItems)

\* ------------------------------------------------------------------------
\* Video gateway, query cache and the like / view mutations (useVideos)
\* ------------------------------------------------------------------------

\* the feed videos whose cache entries are followed
CachedVideos == {VideoIdAt(1)}

\* mutations: { retry: 1 } of the QueryClient
MutationRetry == 1

\* a cache entry of ['videos','detail',id]; present = FALSE is getQueryData
\* returning undefined
NoEntry == [present |-> FALSE, likes |-> 0, views |-> 0]
Entry(row) == [present |-> TRUE, likes |-> row.likes, views |-> row.views]

Max(a, b) == IF a >= b THEN a ELSE b

\* useToggleLike.onMutate: the optimistic likes
OptimisticLikes(liked, likes) == IF liked THEN Max(0, likes - 1) ELSE likes + 1

\* toggleLike: the likes written to the backend
NewLikesNoFloor(liked, currentLikes) == IF liked THEN currentLikes - 1 ELSE currentLikes + 1
NewLikes(liked, currentLikes) == IF liked THEN Max(0, currentLikes - 1) ELSE currentLikes + 1

\* useToggleLike.onError: the entry left in the cache, given context.previousVideo
RestoredDetailInverse(entry, context) ==
    IF context.present THEN [entry EXCEPT !.likes = Max(0, entry.likes - 1)] ELSE entry
RestoredDetail(entry, context) == IF context.present THEN context ELSE entry

\* handleApiError(error, context, showToast): the error toasts shown so far
handleApiError(shown, showToast) == IF showToast THEN shown + 1 ELSE shown

\* a like mutation / a view mutation in flight
Toggle(phase, v, liked) ==
    [phase |-> phase, videoId |-> v, liked |-> liked, context |-> NoEntry,
     readLikes |-> 0, failureCount |-> 0]
Increment(phase, v) ==
    [phase |-> phase, videoId |-> v, readViews |-> 0, row |-> NoEntry, failureCount |-> 0]

\* the mutations in flight are kept as bags: mutations are anonymous
Replace(bag, old, new) == (bag (-) SetToBag({old})) (+) SetToBag({new})
Remove(bag, old) == bag (-) SetToBag({old})

\* VideoControls.handleLikePress up to the await of the haptic feedback; the
\* handler reads isLiked of the render it was created in
HandleLikePress(v) ==
    /\ mutationsStarted < MaxMutations
    /\ mutationsStarted' = mutationsStarted + 1
    /\ toggles' = toggles (+) SetToBag({Toggle("haptic", v, isLiked[v])})
    /\ UNCHANGED <<server, detail, detailInvalidated, list, listInvalidated, isLiked,
                   increments, rolledBack, toastsShown>>

\* handleLikePress after the haptic feedback: setIsLiked and mutate
HandleLikePressMutate(t) ==
    /\ t.phase = "haptic"
    /\ isLiked' = [isLiked EXCEPT ![t.videoId] = ~t.liked]
    /\ toggles' = Replace(toggles, t, [t EXCEPT !.phase = "cancelQueries"])
    /\ UNCHANGED <<server, detail, detailInvalidated, list, listInvalidated, increments,
                   rolledBack, mutationsStarted, toastsShown>>

\* useToggleLike.onMutate after cancelQueries: snapshot and optimistic write
ToggleOnMutate(t) ==
    LET v == t.videoId
        previousVideo == detail[v]
    IN  /\ t.phase = "cancelQueries"
        /\ detail' = IF previousVideo.present
                     THEN [detail EXCEPT ![v].likes = OptimisticLikes(t.liked, previousVideo.likes)]
                     ELSE detail
        /\ detailInvalidated' = IF previousVideo.present
                                THEN [detailInvalidated EXCEPT ![v] = FALSE]
                                ELSE detailInvalidated
        /\ toggles' = Replace(toggles, t, [t EXCEPT !.phase = "read", !.context = previousVideo])
        /\ UNCHANGED <<server, list, listInvalidated, isLiked, increments, rolledBack,
                       mutationsStarted, toastsShown>>

\* toggleLike: select('likes') answered
ToggleReadOk(t) ==
    /\ t.phase = "read"
    /\ toggles' = Replace(toggles, t,
                     [t EXCEPT !.phase = "write", !.readLikes = server[t.videoId].likes])
    /\ UNCHANGED <<server, detail, detailInvalidated, list, listInvalidated, isLiked,
                   increments, rolledBack, mutationsStarted, toastsShown>>

\* toggleLike: update({ likes: newLikes }) applied by the backend
ToggleWriteOk(t) ==
    /\ t.phase = "write"
    /\ server' = [server EXCEPT ![t.videoId].likes = NewLikes(t.liked, t.readLikes)]
    /\ toggles' = Replace(toggles, t, [t EXCEPT !.phase = "written"])
    /\ UNCHANGED <<detail, detailInvalidated, list, listInvalidated, isLiked, increments,
                   rolledBack, mutationsStarted, toastsShown>>

\* useToggleLike.onSettled after a successful toggleLike
ToggleSettleSuccessNoInvalidate(t) ==
    /\ t.phase = "written"
    /\ toggles' = Remove(toggles, t)
    /\ UNCHANGED <<server, detail, detailInvalidated, list, listInvalidated, isLiked,
                   increments, rolledBack, mutationsStarted, toastsShown>>
ToggleSettleSuccess(t) ==
    /\ t.phase = "written"
    /\ detailInvalidated' = [detailInvalidated EXCEPT ![t.videoId] = detail[t.videoId].present]
    /\ listInvalidated' = TRUE
    /\ toggles' = Remove(toggles, t)
    /\ UNCHANGED <<server, detail, list, isLiked, increments, rolledBack, mutationsStarted, toastsShown>>

\* toggleLike throws (select or update failed): the mutation is retried
\* MutationRetry times, then useToggleLike.onError and onSettled run
ToggleCallFails(t) ==
    LET v == t.videoId IN
    /\ t.phase \in {"read", "write"}
    /\ IF t.failureCount < MutationRetry
       THEN /\ toggles' = Replace(toggles, t,
                             [t EXCEPT !.phase = "read", !.readLikes = 0,
                                       !.failureCount = t.failureCount + 1])
            /\ UNCHANGED <<detail, detailInvalidated, listInvalidated, rolledBack, toastsShown>>
       ELSE /\ detail' = [detail EXCEPT ![v] = RestoredDetail(detail[v], t.context)]
            /\ detailInvalidated' = [detailInvalidated EXCEPT ![v] = detail'[v].present]
            /\ listInvalidated' = TRUE
            /\ rolledBack' = (rolledBack \/ t.context.present)
            /\ toastsShown' = handleApiError(toastsShown, FALSE)
            /\ toggles' = Remove(toggles, t)
    /\ UNCHANGED <<server, list, isLiked, increments, mutationsStarted>>

\* incrementViewsMutation.mutate(id), called by the feed on an activation
StartIncrement(v) ==
    /\ mutationsStarted < MaxMutations
    /\ mutationsStarted' = mutationsStarted + 1
    /\ increments' = increments (+) SetToBag({Increment("read", v)})
    /\ UNCHANGED <<server, detail, detailInvalidated, list, listInvalidated, isLiked,
                   toggles, rolledBack, toastsShown>>

\* incrementViews: select('views') answered
IncrementReadOk(i) ==
    /\ i.phase = "read"
    /\ increments' = Replace(increments, i,
                        [i EXCEPT !.phase = "write", !.readViews = server[i.videoId].views])
    /\ UNCHANGED <<server, detail, detailInvalidated, list, listInvalidated, isLiked,
                   toggles, rolledBack, mutationsStarted, toastsShown>>

\* incrementViews: update({ views: newViews }).select().single() applied
IncrementWriteOkByTwo(i) ==
    LET v == i.videoId IN
    /\ i.phase = "write"
    /\ server' = [server EXCEPT ![v].views = i.readViews + 2]
    /\ increments' = Replace(increments, i,
                        [i EXCEPT !.phase = "written", !.row = Entry(server'[v])])
    /\ UNCHANGED <<detail, detailInvalidated, list, listInvalidated, isLiked, toggles,
                   rolledBack, mutationsStarted, toastsShown>>
IncrementWriteOk(i) ==
    LET v == i.videoId IN
    /\ i.phase = "write"
    /\ server' = [server EXCEPT ![v].views = i.readViews + 1]
    /\ increments' = Replace(increments, i,
                        [i EXCEPT !.phase = "written", !.row = Entry(server'[v])])
    /\ UNCHANGED <<detail, detailInvalidated, list, listInvalidated, isLiked, toggles,
                   rolledBack, mutationsStarted, toastsShown>>

\* useIncrementViews.onSuccess
IncrementOnSuccess(i) ==
    /\ i.phase = "written"
    /\ detail' = [detail EXCEPT ![i.videoId] = i.row]
    /\ detailInvalidated' = [detailInvalidated EXCEPT ![i.videoId] = FALSE]
    /\ listInvalidated' = TRUE
    /\ increments' = Remove(increments, i)
    /\ UNCHANGED <<server, list, isLiked, toggles, rolledBack, mutationsStarted, toastsShown>>

\* incrementViews throws: retried MutationRetry times, then
\* useIncrementViews.onError (log only)
IncrementCallFailsWithToast(i) ==
    /\ i.phase \in {"read", "write"}
    /\ IF i.failureCount < MutationRetry
       THEN /\ increments' = Replace(increments, i,
                                [i EXCEPT !.phase = "read", !.readViews = 0,
                                          !.failureCount = i.failureCount + 1])
            /\ UNCHANGED toastsShown
       ELSE /\ increments' = Remove(increments, i)
            /\ toastsShown' = handleApiError(toastsShown, TRUE)
    /\ UNCHANGED <<server, detail, detailInvalidated, list, listInvalidated, isLiked,
                   toggles, rolledBack, mutationsStarted>>
IncrementCallFails(i) ==
    /\ i.phase \in {"read", "write"}
    /\ increments' =
          IF i.failureCount < MutationRetry
          THEN Replace(increments, i,
                  [i EXCEPT !.phase = "read", !.readViews = 0,
                            !.failureCount = i.failureCount + 1])
          ELSE Remove(increments, i)
    /\ UNCHANGED <<server, detail, detailInvalidated, list, listInvalidated, isLiked,
                   toggles, rolledBack, mutationsStarted, toastsShown>>

\* the mounted useVideos list query refetches after invalidateQueries(lists())
RefetchLists ==
    /\ listInvalidated
    /\ list' = [v \in CachedVideos |-> Entry(server[v])]
    /\ listInvalidated' = FALSE
    /\ UNCHANGED <<server, detail, detailInvalidated, isLiked, toggles, increments,
                   rolledBack, mutationsStarted, toastsShown>>

\* nothing cached beyond the fetched list, no mutation in flight
CacheInit ==
    /\ server \in [CachedVideos -> [likes : 0 .. MaxInitialLikes, views : {0}]]
    /\ detail = [v \in CachedVideos |-> NoEntry]
    /\ detailInvalidated = [v \in CachedVideos |-> FALSE]
    /\ list = [v \in CachedVideos |-> Entry(server[v])]
    /\ listInvalidated = FALSE
    /\ isLiked = [v \in CachedVideos |-> FALSE]
    /\ toggles = EmptyBag
    /\ increments = EmptyBag
    /\ rolledBack = FALSE
    /\ mutationsStarted = 0
    /\ toastsShown = 0

CacheIdle == CacheInit /\ \A v \in CachedVideos : server[v].likes = 0

CacheNext ==
    \/ \E v \in CachedVideos : HandleLikePress(v)
    \/ \E t \in BagToSet(toggles) : HandleLikePressMutate(t)
    \/ \E t \in BagToSet(toggles) : ToggleOnMutate(t)
    \/ \E t \in BagToSet(toggles) : ToggleReadOk(t)
    \/ \E t \in BagToSet(toggles) : ToggleWriteOk(t)
    \/ \E t \in BagToSet(toggles) : ToggleSettleSuccess(t)
    \/ \E t \in BagToSet(toggles) : ToggleCallFails(t)
    \/ \E v \in CachedVideos : StartIncrement(v)
    \/ \E i \in BagToSet(increments) : IncrementReadOk(i)
    \/ \E i \in BagToSet(increments) : IncrementWriteOk(i)
    \/ \E i \in BagToSet(increments) : IncrementOnSuccess(i)
    \/ \E i \in BagToSet(increments) : IncrementCallFails(i)
    \/ RefetchLists

\* ---- history of the incrementViews calls ----

\* the view mutations whose incrementViews call is in flight / has returned
InCall(bag) == BagCardinality([i \in {j \in BagToSet(bag) : j.phase \in {"read", "write"}} |-> bag[i]])
Returned(bag) == BagCardinality([i \in {j \in BagToSet(bag) : j.phase = "written"} |-> bag[i]])

HistoryInit ==
    /\ successes = 0
    /\ overlapping = FALSE

\* a call has returned when one more view mutation holds its row; calls
\* overlap when mutate is called while another incrementViews call is in flight
ViewsHistory ==
    /\ successes' = IF Returned(increments') > Returned(increments)
                    THEN successes + 1 ELSE successes
    /\ overlapping' = (overlapping
                         \/ (BagCardinality(increments') > BagCardinality(increments)
                               /\ InCall(increments) >= 1))

\* ---- history of the overlapping like mutations ----

\* the like mutations that have run onMutate and have not settled / whose
\* toggleLike call has returned
Active(bag) ==
    BagCardinality([t \in {u \in BagToSet(bag) : u.phase \in {"read", "write", "written"}}
                      |-> bag[t]])
Succeeded(bag) ==
    BagCardinality([t \in {u \in BagToSet(bag) : u.phase = "written"} |-> bag[t]])

GroupInit == group = [size |-> 0, base |-> detail, clean |-> TRUE]

TogglesHistory ==
    group' =
       IF Active(toggles') > Active(toggles)
       THEN IF Active(toggles) = 0
            THEN [size |-> 1, base |-> detail, clean |-> TRUE]
            ELSE [group EXCEPT !.size = group.size + 1]
       ELSE IF Succeeded(toggles') > Succeeded(toggles)
               \/ Returned(increments') < Returned(increments)
       THEN [group EXCEPT !.clean = FALSE]
       ELSE group

\* ------------------------------------------------------------------------
\* Auth store, session validator, auth mutations and the navigator gate
\* ------------------------------------------------------------------------

Users == {"u1", "u2"}

\* null user / null session (a slot that is absent reads as null)
NullUser == "null"
NullSession == [uid |-> NullUser, expires_at |-> 0, tok |-> 0]

\* seconds; Date.now() is clock * 1000
StartClock == 2
SessionLifetime == 1

\* what a previous run can have left in the two slots for user u1: nothing,
\* a bundle (expires_at missing, past or not yet past), or one slot only
StoredSessions == {[uid |-> "u1", expires_at |-> e, tok |-> 1] : e \in {0, 1, 2}}
InitialStores ==
    {[auth_user |-> NullUser, auth_session |-> NullSession]}
    \cup {[auth_user |-> "u1", auth_session |-> s] : s \in StoredSessions}
    \cup {[auth_user |-> "u1", auth_session |-> NullSession]}
    \cup {[auth_user |-> NullUser, auth_session |-> s] : s \in StoredSessions}

\* saveToSecureStore / deleteFromSecureStore on the two STORAGE_KEYS
saveToSecureStore(store, key, value) == [store EXCEPT ![key] = value]
deleteFromSecureStoreSkipped(store, key) == store
deleteFromSecureStore(store, key) ==
    [store EXCEPT ![key] = IF key = "auth_user" THEN NullUser ELSE NullSession]

\* validateAndRefreshSession: session.expires_at && expires_at * 1000 < Date.now()
IsExpired(s) == s.expires_at # 0 /\ s.expires_at * 1000 < clock * 1000

\* the session the identity provider issues now
IssuedSession(uid) == [uid |-> uid, expires_at |-> clock + SessionLifetime, tok |-> nextTok]

\* set({ user, session, isAuthenticated, isLoading })
SetState(u, s, authenticated, loading) ==
    /\ user' = u
    /\ session' = s
    /\ isAuthenticated' = authenticated
    /\ isLoading' = loading

\* AppNavigator: what is mounted
Navigator == IF isLoading THEN "Splash" ELSE IF isAuthenticated THEN "Main" ELSE "Auth"

\* the gateway calls validateAndRefreshSession makes: supabase.auth.refreshSession
\* and the select on 'users' for the subject of a session
RefreshCall(s) == [op |-> "refreshSession", session |-> s]
ProfileCall(s) == [op |-> "profile", session |-> s]

\* restoreAuth before it is called; calls logs the gateway calls of its
\* validateAndRefreshSession, found the two slots as they were when it loaded
NoRun ==
    [user |-> NullUser, session |-> NullSession, isAuthenticated |-> FALSE,
     failure |-> "none", calls |-> <<>>,
     found |-> [auth_user |-> NullUser, auth_session |-> NullSession]]
IdleRestore ==
    [pc |-> "mount", user |-> NullUser, session |-> NullSession, failure |-> "none",
     calls |-> <<>>, found |-> [auth_user |-> NullUser, auth_session |-> NullSession],
     run |-> 1, previous |-> NoRun]
\* a useAuth mutation whose gateway call is in flight
AuthOp(kind, uid) ==
    [kind |-> kind, pc |-> "request", user |-> uid, session |-> NullSession, error |-> FALSE]

\* ---- restoreAuth, called by the effect of AppNavigator ----

RestoreBegin ==
    /\ restore.pc = "mount"
    /\ isLoading' = TRUE
    /\ restore' = [restore EXCEPT !.pc = "getSession"]
    /\ UNCHANGED <<secureStore, user, session, isAuthenticated, clock, nextTok, ops, opsStarted, logoutSettled>>

\* the first step of validateAndRefreshSession on the loaded session
ValidateAlwaysRefreshes(r, stored, failure) ==
    IF stored = NullSession
    THEN [r EXCEPT !.pc = "deleteUser", !.session = NullSession, !.failure = failure]
    ELSE [r EXCEPT !.pc = "refreshSession", !.session = stored, !.failure = failure,
                   !.calls = <<RefreshCall(stored)>>]
Validate(r, stored, failure) ==
    IF stored = NullSession
    THEN [r EXCEPT !.pc = "deleteUser", !.session = NullSession, !.failure = failure]
    ELSE IF IsExpired(stored)
    THEN [r EXCEPT !.pc = "refreshSession", !.session = stored, !.failure = failure,
                   !.calls = <<RefreshCall(stored)>>]
    ELSE [r EXCEPT !.pc = "profile", !.session = stored, !.failure = failure,
                   !.calls = <<ProfileCall(stored)>>]

\* getFromSecureStore(SESSION) returns the slot
RestoreGetSession ==
    /\ restore.pc = "getSession"
    /\ restore' = Validate([restore EXCEPT !.found = secureStore], secureStore.auth_session, "none")
    /\ UNCHANGED <<secureStore, authState, clock, nextTok, ops, opsStarted, logoutSettled>>

\* getFromSecureStore(SESSION) fails (read or JSON.parse): logged, null
RestoreGetSessionFails ==
    /\ restore.pc = "getSession"
    /\ restore' = Validate([restore EXCEPT !.found = secureStore], NullSession, "load")
    /\ UNCHANGED <<secureStore, authState, clock, nextTok, ops, opsStarted, logoutSettled>>

\* supabase.auth.refreshSession succeeded: fetch the profile of the new session
RestoreRefreshOkFetchesOld ==
    /\ restore.pc = "refreshSession"
    /\ restore' = [restore EXCEPT !.pc = "profile", !.session = IssuedSession(restore.session.uid),
                                  !.calls = Append(restore.calls, ProfileCall(restore.session))]
    /\ nextTok' = nextTok + 1
    /\ UNCHANGED <<secureStore, authState, clock, ops, opsStarted, logoutSettled>>
RestoreRefreshOk ==
    /\ restore.pc = "refreshSession"
    /\ restore' = [restore EXCEPT !.pc = "profile", !.session = IssuedSession(restore.session.uid),
                                  !.calls = Append(restore.calls,
                                               ProfileCall(IssuedSession(restore.session.uid)))]
    /\ nextTok' = nextTok + 1
    /\ UNCHANGED <<secureStore, authState, clock, ops, opsStarted, logoutSettled>>

\* refresh rejected (error || !data.session): validate returns { null, null }
RestoreRefreshFails ==
    /\ restore.pc = "refreshSession"
    /\ restore' = [restore EXCEPT !.pc = "deleteUser", !.session = NullSession,
                                  !.failure = "refresh"]
    /\ UNCHANGED <<secureStore, authState, clock, nextTok, ops, opsStarted, logoutSettled>>

\* profile fetched: validate returns { user, session }, restoreAuth starts saving
RestoreProfileOkSetsFirst ==
    /\ restore.pc = "profile"
    /\ restore' = [restore EXCEPT !.pc = "saveUser", !.user = restore.session.uid]
    /\ SetState(restore.session.uid, restore.session, TRUE, FALSE)
    /\ UNCHANGED <<secureStore, clock, nextTok, ops, opsStarted, logoutSettled>>
RestoreProfileOk ==
    /\ restore.pc = "profile"
    /\ restore' = [restore EXCEPT !.pc = "saveUser", !.user = restore.session.uid]
    /\ UNCHANGED <<secureStore, authState, clock, nextTok, ops, opsStarted, logoutSettled>>

\* where a throw of validateAndRefreshSession lands in restoreAuth
OnValidateThrowEscapes(r) == [r EXCEPT !.pc = "escaped", !.failure = "profile"]
OnValidateThrow(r) == [r EXCEPT !.pc = "catchDeleteUser", !.session = NullSession,
                                !.failure = "profile"]

\* profile fetch failed: validate throws
RestoreProfileFails ==
    /\ restore.pc = "profile"
    /\ restore' = OnValidateThrow(restore)
    /\ UNCHANGED <<secureStore, authState, clock, nextTok, ops, opsStarted, logoutSettled>>

RestoreSaveUser ==
    /\ restore.pc = "saveUser"
    /\ secureStore' = saveToSecureStore(secureStore, "auth_user", restore.user)
    /\ restore' = [restore EXCEPT !.pc = "saveSession"]
    /\ UNCHANGED <<authState, clock, nextTok, ops, opsStarted, logoutSettled>>

RestoreSaveSession ==
    /\ restore.pc = "saveSession"
    /\ secureStore' = saveToSecureStore(secureStore, "auth_session", restore.session)
    /\ SetState(restore.user, restore.session, TRUE, FALSE)
    /\ restore' = [restore EXCEPT !.pc = "done"]
    /\ UNCHANGED <<clock, nextTok, ops, opsStarted, logoutSettled>>

\* the else branch and the catch block: delete both slots, then set
RestoreDeleteUser ==
    /\ restore.pc \in {"deleteUser", "catchDeleteUser"}
    /\ secureStore' = deleteFromSecureStore(secureStore, "auth_user")
    /\ restore' = [restore EXCEPT !.pc = IF restore.pc = "deleteUser" THEN "deleteSession"
                                          ELSE "catchDeleteSession"]
    /\ UNCHANGED <<authState, clock, nextTok, ops, opsStarted, logoutSettled>>

RestoreDeleteSessionKeepsLoading ==
    /\ restore.pc \in {"deleteSession", "catchDeleteSession"}
    /\ secureStore' = deleteFromSecureStore(secureStore, "auth_session")
    /\ SetState(NullUser, NullSession, FALSE, TRUE)
    /\ restore' = [restore EXCEPT !.pc = "done"]
    /\ UNCHANGED <<clock, nextTok, ops, opsStarted, logoutSettled>>
RestoreDeleteSession ==
    /\ restore.pc \in {"deleteSession", "catchDeleteSession"}
    /\ secureStore' = deleteFromSecureStore(secureStore, "auth_session")
    /\ SetState(NullUser, NullSession, FALSE, FALSE)
    /\ restore' = [restore EXCEPT !.pc = "done"]
    /\ UNCHANGED <<clock, nextTok, ops, opsStarted, logoutSettled>>

\* restoreAuth called again after it has completed (AppNavigator mounted
\* again): the outcome of the completed run is kept in previous
RestoreAgain ==
    /\ restore.pc = "done"
    /\ restore.run < MaxRestores
    /\ isLoading' = TRUE
    /\ restore' = [IdleRestore EXCEPT
                      !.pc = "getSession",
                      !.run = restore.run + 1,
                      !.previous = [user |-> user, session |-> session,
                                    isAuthenticated |-> isAuthenticated,
                                    failure |-> restore.failure, calls |-> restore.calls,
                                    found |-> restore.found]]
    /\ UNCHANGED <<secureStore, user, session, isAuthenticated, clock, nextTok, ops, opsStarted, logoutSettled>>

\* ---- the store's actions called directly ----

\* setAuth(u, s) called on the store: the set, then the two saves when both
\* arguments are non-null
CallSetAuthTrustsUser(u, s) ==
    /\ opsStarted < MaxAuthOps
    /\ opsStarted' = opsStarted + 1
    /\ SetState(u, s, u # NullUser, FALSE)
    /\ ops' = IF u # NullUser /\ s # NullSession
              THEN ops (+) SetToBag({[AuthOp("setAuth", u) EXCEPT !.pc = "saveUser", !.session = s]})
              ELSE ops
    /\ logoutSettled' = "no"
    /\ UNCHANGED <<secureStore, clock, nextTok, restore>>
CallSetAuth(u, s) ==
    /\ opsStarted < MaxAuthOps
    /\ opsStarted' = opsStarted + 1
    /\ SetState(u, s, u # NullUser /\ s # NullSession, FALSE)
    /\ ops' = IF u # NullUser /\ s # NullSession
              THEN ops (+) SetToBag({[AuthOp("setAuth", u) EXCEPT !.pc = "saveUser", !.session = s]})
              ELSE ops
    /\ logoutSettled' = "no"
    /\ UNCHANGED <<secureStore, clock, nextTok, restore>>

\* clearAuth() called on the store: the set, then the two deletes
CallClearAuth ==
    /\ opsStarted < MaxAuthOps
    /\ opsStarted' = opsStarted + 1
    /\ SetState(NullUser, NullSession, FALSE, FALSE)
    /\ ops' = ops (+) SetToBag({[AuthOp("clearAuth", NullUser) EXCEPT !.pc = "deleteUser"]})
    /\ logoutSettled' = "no"
    /\ UNCHANGED <<secureStore, clock, nextTok, restore>>

\* setLoading(loading): set({ isLoading: loading })
setLoading(loading) ==
    /\ isLoading' = loading
    /\ UNCHANGED <<secureStore, user, session, isAuthenticated, clock, nextTok, restore,
                   ops, opsStarted, logoutSettled>>

\* ---- setAuth / clearAuth as called by the useAuth mutations ----

\* setAuth up to its first await
setAuth(op, u, s) ==
    /\ SetState(u, s, u # NullUser /\ s # NullSession, FALSE)
    /\ ops' = IF u # NullUser /\ s # NullSession
              THEN Replace(ops, op, [op EXCEPT !.pc = "saveUser", !.user = u, !.session = s])
              ELSE Remove(ops, op)

\* clearAuth up to its first await
clearAuth(op, failed) ==
    /\ SetState(NullUser, NullSession, FALSE, FALSE)
    /\ ops' = Replace(ops, op, [op EXCEPT !.pc = "deleteUser", !.error = failed])

\* login / register from the Auth screens, logout / checkSession from any
\* mounted component: the gateway call is in flight
StartMutation(kind, uid) ==
    /\ opsStarted < MaxAuthOps
    /\ opsStarted' = opsStarted + 1
    /\ IF kind \in {"login", "register"} THEN Navigator = "Auth" ELSE Navigator # "Splash"
    /\ kind \in {"login", "register"} \/ uid = "u1"
    /\ ops' = ops (+) SetToBag({AuthOp(kind, uid)})
    /\ logoutSettled' = "no"
    /\ UNCHANGED <<secureStore, authState, clock, nextTok, restore>>

\* signIn / signUp / getCurrentUser resolved with a user and a session
MutationSucceedsWithSession(op) ==
    /\ op.pc = "request"
    /\ op.kind \in {"login", "register", "check"}
    /\ setAuth(op, op.user, IssuedSession(op.user))
    /\ nextTok' = nextTok + 1
    /\ UNCHANGED <<secureStore, clock, restore, opsStarted, logoutSettled>>

\* signUp resolved without a session (authData.session is null)
RegisterSucceedsWithoutSession(op) ==
    /\ op.pc = "request"
    /\ op.kind = "register"
    /\ setAuth(op, op.user, NullSession)
    /\ UNCHANGED <<secureStore, clock, nextTok, restore, opsStarted, logoutSettled>>

\* getCurrentUser resolved with { user: null, session: null }
CheckSessionFindsNone(op) ==
    /\ op.pc = "request"
    /\ op.kind = "check"
    /\ setAuth(op, NullUser, NullSession)
    /\ UNCHANGED <<secureStore, clock, nextTok, restore, opsStarted, logoutSettled>>

\* signIn / signUp rejected: handleAuthError only
LoginOrRegisterFails(op) ==
    /\ op.pc = "request"
    /\ op.kind \in {"login", "register"}
    /\ ops' = Remove(ops, op)
    /\ UNCHANGED <<secureStore, authState, clock, nextTok, restore, opsStarted, logoutSettled>>

\* signOut resolved (onSuccess) or rejected (onError), getCurrentUser
\* rejected (onError): clearAuth
MutationClearsAuth(op, failed) ==
    /\ op.pc = "request"
    /\ op.kind \in {"logout", "check"}
    /\ op.kind = "check" => failed
    /\ clearAuth(op, failed)
    /\ UNCHANGED <<secureStore, clock, nextTok, restore, opsStarted, logoutSettled>>

OpSaveUser(op) ==
    /\ op.pc = "saveUser"
    /\ secureStore' = saveToSecureStore(secureStore, "auth_user", op.user)
    /\ ops' = Replace(ops, op, [op EXCEPT !.pc = "saveSession"])
    /\ UNCHANGED <<authState, clock, nextTok, restore, opsStarted, logoutSettled>>

OpSaveSession(op) ==
    /\ op.pc = "saveSession"
    /\ secureStore' = saveToSecureStore(secureStore, "auth_session", op.session)
    /\ ops' = Remove(ops, op)
    /\ UNCHANGED <<authState, clock, nextTok, restore, opsStarted, logoutSettled>>

OpDeleteUser(op) ==
    /\ op.pc = "deleteUser"
    /\ secureStore' = deleteFromSecureStore(secureStore, "auth_user")
    /\ ops' = Replace(ops, op, [op EXCEPT !.pc = "deleteSession"])
    /\ UNCHANGED <<authState, clock, nextTok, restore, opsStarted, logoutSettled>>

\* how a logout mutation settled, "no" for any other mutation
Settled(op) == IF op.kind = "logout" THEN (IF op.error THEN "error" ELSE "ok") ELSE "no"

OpDeleteSessionSkipped(op) ==
    /\ op.pc = "deleteSession"
    /\ ops' = Remove(ops, op)
    /\ logoutSettled' = Settled(op)
    /\ UNCHANGED <<secureStore, authState, clock, nextTok, restore, opsStarted>>
OpDeleteSession(op) ==
    /\ op.pc = "deleteSession"
    /\ secureStore' = deleteFromSecureStore(secureStore, "auth_session")
    /\ ops' = Remove(ops, op)
    /\ logoutSettled' = Settled(op)
    /\ UNCHANGED <<authState, clock, nextTok, restore, opsStarted>>

Tick ==
    /\ clock < MaxClock
    /\ clock' = clock + 1
    /\ UNCHANGED <<secureStore, authState, nextTok, restore, ops, opsStarted, logoutSettled>>

\* create(): the store before restoreAuth has run
AuthInit ==
    /\ secureStore \in InitialStores
    /\ user = NullUser
    /\ session = NullSession
    /\ isAuthenticated = FALSE
    /\ isLoading = TRUE
    /\ clock = StartClock
    /\ nextTok = 2
    /\ restore = IdleRestore
    /\ ops = EmptyBag
    /\ opsStarted = 0
    /\ logoutSettled = "no"

AuthIdle == AuthInit /\ secureStore.auth_user = NullUser /\ secureStore.auth_session = NullSession

AuthNext ==
    \/ RestoreBegin
    \/ RestoreGetSession
    \/ RestoreGetSessionFails
    \/ RestoreRefreshOk
    \/ RestoreRefreshFails
    \/ RestoreProfileOk
    \/ RestoreProfileFails
    \/ RestoreSaveUser
    \/ RestoreSaveSession
    \/ RestoreDeleteUser
    \/ RestoreDeleteSession
    \/ \E kind \in {"login", "register", "logout", "check"}, uid \in Users :
          StartMutation(kind, uid)
    \/ \E op \in BagToSet(ops) : MutationSucceedsWithSession(op)
    \/ \E op \in BagToSet(ops) : RegisterSucceedsWithoutSession(op)
    \/ \E op \in BagToSet(ops) : CheckSessionFindsNone(op)
    \/ \E op \in BagToSet(ops) : LoginOrRegisterFails(op)
    \/ \E op \in BagToSet(ops), failed \in BOOLEAN : MutationClearsAuth(op, failed)
    \/ \E op \in BagToSet(ops) : OpSaveUser(op)
    \/ \E op \in BagToSet(ops) : OpSaveSession(op)
    \/ \E op \in BagToSet(ops) : OpDeleteUser(op)
    \/ \E op \in BagToSet(ops) : OpDeleteSession(op)
    \/ Tick

\* ------------------------------------------------------------------------
\* Leaderboard query (useLeaderboard) and LeaderboardScreen
\* ------------------------------------------------------------------------

\* retry: 3 of useLeaderboard
QueryRetry == 3

\* the query when LeaderboardScreen mounts: no data, first fetch in flight
MountedQuery ==
    [status |-> "pending", hasData |-> FALSE, data |-> 0, error |-> FALSE,
     fetchStatus |-> "fetching", failureCount |-> 0]

\* isLoading of the query result: fetching with no data yet
QueryIsLoading == leaderboard.fetchStatus = "fetching" /\ leaderboard.status = "pending"

\* what LeaderboardScreen returns
LeaderboardView ==
    IF QueryIsLoading /\ ~leaderboard.hasData THEN "spinner"
    ELSE IF leaderboard.error /\ ~leaderboard.hasData THEN "error"
    ELSE "list"

\* refetchInterval, refetchOnWindowFocus, pull-to-refresh or the retry button
LeaderboardRefetch ==
    /\ leaderboard.fetchStatus = "idle"
    /\ leaderboard' =
          IF leaderboard.hasData
          THEN [leaderboard EXCEPT !.fetchStatus = "fetching", !.failureCount = 0]
          ELSE [leaderboard EXCEPT !.fetchStatus = "fetching", !.failureCount = 0,
                                   !.status = "pending", !.error = FALSE]
    /\ UNCHANGED board

\* fetchLeaderboard resolved
LeaderboardFetchOk ==
    /\ leaderboard.fetchStatus = "fetching"
    /\ leaderboard' = [status |-> "success", hasData |-> TRUE, data |-> board,
                       error |-> FALSE, fetchStatus |-> "idle", failureCount |-> 0]
    /\ UNCHANGED board

\* fetchLeaderboard rejected: retried QueryRetry times, then the query is in
\* error and keeps the data it had
LeaderboardFetchFailsDropsData ==
    /\ leaderboard.fetchStatus = "fetching"
    /\ leaderboard' =
          IF leaderboard.failureCount < QueryRetry
          THEN [leaderboard EXCEPT !.failureCount = leaderboard.failureCount + 1]
          ELSE [leaderboard EXCEPT !.status = "error", !.error = TRUE, !.hasData = FALSE,
                                   !.data = 0, !.fetchStatus = "idle",
                                   !.failureCount = leaderboard.failureCount + 1]
    /\ UNCHANGED board
LeaderboardFetchFails ==
    /\ leaderboard.fetchStatus = "fetching"
    /\ leaderboard' =
          IF leaderboard.failureCount < QueryRetry
          THEN [leaderboard EXCEPT !.failureCount = leaderboard.failureCount + 1]
          ELSE [leaderboard EXCEPT !.status = "error", !.error = TRUE,
                                   !.fetchStatus = "idle",
                                   !.failureCount = leaderboard.failureCount + 1]
    /\ UNCHANGED board

\* the rankings change on the backend
BoardChanges ==
    /\ board < MaxBoard
    /\ board' = board + 1
    /\ UNCHANGED leaderboard

BoardInit ==
    /\ board = 0
    /\ leaderboard = MountedQuery

BoardNext ==
    \/ LeaderboardRefetch
    \/ LeaderboardFetchOk
    \/ LeaderboardFetchFails
    \/ BoardChanges

\* ------------------------------------------------------------------------
\* Specifications: one per subsystem, the others stay in their initial state
\* ------------------------------------------------------------------------
InitFeed == FeedInit /\ CacheIdle /\ AuthIdle /\ HistoryInit /\ BoardInit /\ GroupInit

NextFeed == FeedNext /\ UNCHANGED <<cacheVars, authVars, restVars>>

SpecFeed == InitFeed /\ [][NextFeed]_vars

InitCache == FeedInit /\ CacheInit /\ AuthIdle /\ HistoryInit /\ BoardInit /\ GroupInit

NextCache == CacheNext /\ UNCHANGED <<feedVars, authVars, restVars>>

SpecCache == InitCache /\ [][NextCache]_vars

InitAuth == FeedInit /\ CacheIdle /\ AuthInit /\ HistoryInit /\ BoardInit /\ GroupInit

NextAuth == AuthNext /\ UNCHANGED <<feedVars, cacheVars, restVars>>

SpecAuth == InitAuth /\ [][NextAuth]_vars

\* the cache with the history of the incrementViews calls recorded
InitViews == FeedInit /\ CacheInit /\ AuthIdle /\ HistoryInit /\ BoardInit /\ GroupInit

NextViews == CacheNext /\ ViewsHistory /\ UNCHANGED <<feedVars, authVars, boardVars, group>>

SpecViews == InitViews /\ [][NextViews]_vars

\* the cache with the history of the overlapping like mutations recorded
InitToggles == FeedInit /\ CacheInit /\ AuthIdle /\ HistoryInit /\ BoardInit /\ GroupInit

NextToggles ==
    CacheNext /\ TogglesHistory /\ UNCHANGED <<feedVars, authVars, historyVars, boardVars>>

SpecToggles == InitToggles /\ [][NextToggles]_vars

\* the leaderboard screen on its own
InitBoard == FeedInit /\ CacheIdle /\ AuthIdle /\ HistoryInit /\ BoardInit /\ GroupInit

NextBoard == BoardNext /\ UNCHANGED <<feedVars, cacheVars, authVars, historyVars, group>>

SpecBoard == InitBoard /\ [][NextBoard]_vars

\* the useAuth mutations issued one at a time: a mutation is started only
\* when the previous one has settled
StartMutationSerial(kind, uid) == ops = EmptyBag /\ StartMutation(kind, uid)

SerialNext ==
    \/ RestoreBegin
    \/ RestoreGetSession
    \/ RestoreGetSessionFails
    \/ RestoreRefreshOk
    \/ RestoreRefreshFails
    \/ RestoreProfileOk
    \/ RestoreProfileFails
    \/ RestoreSaveUser
    \/ RestoreSaveSession
    \/ RestoreDeleteUser
    \/ RestoreDeleteSession
    \/ \E kind \in {"login", "register", "logout", "check"}, uid \in Users :
          StartMutationSerial(kind, uid)
    \/ \E op \in BagToSet(ops) : MutationSucceedsWithSession(op)
    \/ \E op \in BagToSet(ops) : RegisterSucceedsWithoutSession(op)
    \/ \E op \in BagToSet(ops) : CheckSessionFindsNone(op)
    \/ \E op \in BagToSet(ops) : LoginOrRegisterFails(op)
    \/ \E op \in BagToSet(ops), failed \in BOOLEAN : MutationClearsAuth(op, failed)
    \/ \E op \in BagToSet(ops) : OpSaveUser(op)
    \/ \E op \in BagToSet(ops) : OpSaveSession(op)
    \/ \E op \in BagToSet(ops) : OpDeleteUser(op)
    \/ \E op \in BagToSet(ops) : OpDeleteSession(op)
    \/ Tick

InitSerial == FeedInit /\ CacheIdle /\ AuthInit /\ HistoryInit /\ BoardInit /\ GroupInit

NextSerial == SerialNext /\ UNCHANGED <<feedVars, cacheVars, restVars>>

SpecSerial == InitSerial /\ [][NextSerial]_vars

\* restoreAuth on its own, called up to MaxRestores times in succession
RestoreNext ==
    \/ RestoreBegin
    \/ RestoreGetSession
    \/ RestoreGetSessionFails
    \/ RestoreRefreshOk
    \/ RestoreRefreshFails
    \/ RestoreProfileOk
    \/ RestoreProfileFails
    \/ RestoreSaveUser
    \/ RestoreSaveSession
    \/ RestoreDeleteUser
    \/ RestoreDeleteSession
    \/ RestoreAgain
    \/ Tick

InitRestore == FeedInit /\ CacheIdle /\ AuthInit /\ HistoryInit /\ BoardInit /\ GroupInit

NextRestore == RestoreNext /\ UNCHANGED <<feedVars, cacheVars, restVars>>

SpecRestore == InitRestore /\ [][NextRestore]_vars

\* a step of a running restoreAuth: every storage and network call it awaits
\* returns or fails
RestoreStep ==
    /\ \/ RestoreBegin
       \/ RestoreGetSession
       \/ RestoreGetSessionFails
       \/ RestoreRefreshOk
       \/ RestoreRefreshFails
       \/ RestoreProfileOk
       \/ RestoreProfileFails
       \/ RestoreSaveUser
       \/ RestoreSaveSession
       \/ RestoreDeleteUser
       \/ RestoreDeleteSession
    /\ UNCHANGED <<feedVars, cacheVars, restVars>>

\* restoreAuth with its awaited calls eventually settling
SpecRestoreFair == InitRestore /\ [][NextRestore]_vars /\ WF_vars(RestoreStep)

\* the store on its own: restoreAuth called at start-up, and setAuth, clearAuth
\* and setLoading called in any order, a call starting while the awaits of
\* earlier calls are pending
StoreNext ==
    \/ RestoreBegin
    \/ RestoreGetSession
    \/ RestoreGetSessionFails
    \/ RestoreRefreshOk
    \/ RestoreRefreshFails
    \/ RestoreProfileOk
    \/ RestoreProfileFails
    \/ RestoreSaveUser
    \/ RestoreSaveSession
    \/ RestoreDeleteUser
    \/ RestoreDeleteSession
    \/ \E u \in Users \cup {NullUser}, withSession \in BOOLEAN :
          CallSetAuth(u, IF withSession
                         THEN IssuedSession(IF u = NullUser THEN "u1" ELSE u)
                         ELSE NullSession)
    \/ CallClearAuth
    \/ \E loading \in BOOLEAN : setLoading(loading)
    \/ \E op \in BagToSet(ops) : OpSaveUser(op)
    \/ \E op \in BagToSet(ops) : OpSaveSession(op)
    \/ \E op \in BagToSet(ops) : OpDeleteUser(op)
    \/ \E op \in BagToSet(ops) : OpDeleteSession(op)

InitStore == FeedInit /\ CacheIdle /\ AuthInit /\ HistoryInit /\ BoardInit /\ GroupInit

NextStore == StoreNext /\ UNCHANGED <<feedVars, cacheVars, restVars>>

SpecStore == InitStore /\ [][NextStore]_vars

\* ------------------------------------------------------------------------
\* Claims about the viewport playback controller
\* ------------------------------------------------------------------------

\* C1: in every reachable state of the feed at most one list index is
\* rendered as active, and an index is active only when it equals
\* activeVideoIndex.
C1_SingleActive ==
    /\ Cardinality({i \in FeedIndices : rendered[i]}) <= 1
    /\ \A i \in FeedIndices : rendered[i] => i = activeVideoIndex

C1_Witness ==
    /\ Len(events) >= 2
    /\ activeVideoIndex = 2
    /\ rendered[2]
    /\ changes >= 2

LastEvent == events[Len(events)]

\* C2: after a visibility-changed event with a non-empty viewable list has
\* been processed, activeVideoIndex is the index of the first viewable item.
C2_ActiveIsFirstViewable ==
    (Len(events) > 0 /\ Len(LastEvent) > 0 /\ LastEvent[1].index # NullIndex)
        => activeVideoIndex = LastEvent[1].index

\* C3: the number of incrementViews calls equals the number of changes of
\* activeVideoIndex (an event that changes nothing fires no mutation).
C3_CallsEqualChanges == Len(viewCalls) = changes

\* C4: every change of activeVideoIndex fires exactly one incrementViews
\* mutation, for the id of the newly active item; and after item 1 and then
\* item 2 became visible in a fresh feed there were exactly two changes and
\* exactly two calls, for item 1 and for item 2.
C4_ChangeFiresOneCall ==
    /\ [][activeVideoIndex' # activeVideoIndex
            => viewCalls' = Append(viewCalls, VideoIdAt(activeVideoIndex'))]_vars
    /\ [](events = << <<ViewToken(1)>>, <<ViewToken(2)>> >>
            => (changes = 2 /\ viewCalls = <<VideoIdAt(1), VideoIdAt(2)>>))

C4_Witness ==
    /\ events = << <<ViewToken(1)>>, <<ViewToken(2)>> >>
    /\ changes = 2
    /\ viewCalls = <<VideoIdAt(1), VideoIdAt(2)>>

\* ------------------------------------------------------------------------
\* Claims about the optimistic like mutation
\* ------------------------------------------------------------------------

\* the likes of a video as the client holds them: the detail entry when it is
\* cached, else the list row that VideoControls displays
LocalLikes(v) == IF detail[v].present THEN detail[v].likes ELSE list[v].likes

\* C5: when toggle-like runs with isLiked = false on a video whose likes is
\* n, the local (cached or displayed) likes of the video is n + 1 as soon as
\* onMutate has run, before the gateway call resolves.
C5_OptimisticLikeVisible ==
    [][\A t \in BagToSet(toggles) :
          (t.phase = "cancelQueries" /\ ~t.liked
              /\ toggles' = Replace(toggles, t,
                               [t EXCEPT !.phase = "read", !.context = detail[t.videoId]]))
          => LocalLikes(t.videoId)' = LocalLikes(t.videoId) + 1]_vars

\* C6: when a toggle-like mutation fails, the detail entry of the video is
\* exactly the snapshot taken by onMutate before its optimistic write.
C6_RollbackToSnapshot ==
    [][\A t \in BagToSet(toggles) :
          (t.phase \in {"read", "write"} /\ t.failureCount = MutationRetry
              /\ toggles' = Remove(toggles, t) /\ t.context.present)
          => detail'[t.videoId] = t.context]_vars

C6_Witness ==
    /\ rolledBack
    /\ toggles = EmptyBag
    /\ mutationsStarted = 2
    /\ \A v \in CachedVideos : detail[v].present /\ detail[v].likes = server[v].likes

\* ------------------------------------------------------------------------
\* Claims about the auth store and session restoration
\* ------------------------------------------------------------------------

Unauthenticated ==
    /\ user = NullUser
    /\ session = NullSession
    /\ ~isAuthenticated
    /\ ~isLoading

StoreAbsent ==
    /\ secureStore.auth_user = NullUser
    /\ secureStore.auth_session = NullSession

\* the secure store agrees with the in-memory user and session
StoreAgrees ==
    /\ (user # NullUser /\ session # NullSession)
          => (secureStore.auth_user = user /\ secureStore.auth_session = session)
    /\ (user = NullUser /\ session = NullSession) => StoreAbsent

RestoreRunning == restore.pc \notin {"mount", "done"}

AuthQuiescent ==
    /\ restore.pc = "done"
    /\ ops = EmptyBag

\* this step completes a restoreAuth, or a setAuth / clearAuth that changed
\* { user, session }
TransitionCompletes ==
    \/ restore.pc # "done" /\ restore'.pc = "done"
    \/ \E op \in BagToSet(ops) :
          /\ ops' = Remove(ops, op)
          /\ \/ op.pc \in {"saveSession", "deleteSession"}
             \/ op.pc = "request" /\ <<user, session>>' # <<user, session>>

\* C7: when a setAuth, clearAuth or restoreAuth that changes {user, session}
\* has completed (and no other auth operation is in flight), the secure store
\* holds the in-memory user and session, or holds nothing when both are null.
C7_StoreConsistentAfterTransition ==
    [][(TransitionCompletes /\ AuthQuiescent') => StoreAgrees']_vars

C9_SplashWhileRestoring == RestoreRunning => (isLoading /\ Navigator = "Splash")

C9_Witness ==
    /\ restore.pc = "saveSession"
    /\ secureStore.auth_user = restore.user
    /\ Navigator = "Splash"

\* C10: no exception escapes restoreAuth, and a restoreAuth in which loading
\* the session, refreshing it or fetching the profile failed completes in the
\* unauthenticated state.
C10_RestoreFailureDegrades ==
    /\ [](restore.pc # "escaped")
    /\ [][(restore.pc # "done" /\ restore'.pc = "done" /\ restore.failure # "none")
            => Unauthenticated']_vars

C10_Witness ==
    /\ restore.pc = "done"
    /\ restore.failure = "profile"
    /\ opsStarted = 0
    /\ Unauthenticated

\* the refreshSession calls / profile fetches restoreAuth's validator has made
RefreshCalls == {i \in DOMAIN restore.calls : restore.calls[i].op = "refreshSession"}
ProfileCalls == {i \in DOMAIN restore.calls : restore.calls[i].op = "profile"}

\* C11: given a stored session whose expires_at is in the past,
\* validateAndRefreshSession calls refreshSession exactly once and makes no
\* profile fetch for the old session; a profile is fetched only after the
\* refresh succeeded, and then for the refreshed session's subject.
C11_ExpiredRefreshesOnce ==
    /\ [][(restore.pc = "getSession" /\ restore'.pc # "getSession"
              /\ IsExpired(restore'.session))
            => restore'.calls = <<RefreshCall(restore'.session)>>]_vars
    /\ [](RefreshCalls # {}
            => /\ RefreshCalls = {1}
               /\ \A i \in ProfileCalls :
                     /\ i = 2
                     /\ restore.failure # "refresh"
                     /\ restore.calls[i].session # restore.calls[1].session
                     /\ restore.calls[i].session.uid = restore.calls[1].session.uid
                     /\ restore.calls[i].session.tok # restore.calls[1].session.tok)

C11_Witness ==
    /\ restore.pc = "done"
    /\ IsExpired(restore.found.auth_session)
    /\ Len(restore.calls) = 2
    /\ RefreshCalls = {1}
    /\ isAuthenticated
    /\ session = restore.calls[2].session

\* C12: when restoreAuth is called twice in succession on a stored session
\* that is not expired at either call, and the profile fetch succeeds both
\* times, both calls end authenticated with the same user and session, the
\* stored session is unchanged and refreshSession is never called.
C12_RestoreIdempotent ==
    [][(/\ restore.pc # "done" /\ restore'.pc = "done"
        /\ restore.run > 1
        /\ restore.previous.found.auth_session # NullSession
        /\ ~IsExpired(restore.previous.found.auth_session)
        /\ restore.previous.failure = "none"
        /\ restore.failure = "none")
       => (/\ restore.previous.isAuthenticated
           /\ isAuthenticated'
           /\ user' # NullUser
           /\ user' = restore.previous.user
           /\ session' = restore.previous.session
           /\ secureStore'.auth_session = restore.previous.found.auth_session
           /\ \A i \in DOMAIN restore.calls : restore.calls[i].op # "refreshSession"
           /\ \A i \in DOMAIN restore.previous.calls :
                 restore.previous.calls[i].op # "refreshSession")]_vars

C12_Witness ==
    /\ restore.pc = "done"
    /\ restore.run = 2
    /\ restore.previous.isAuthenticated
    /\ isAuthenticated
    /\ session = restore.previous.session
    /\ secureStore.auth_session = restore.previous.found.auth_session
    /\ restore.calls = <<ProfileCall(session)>>
    /\ restore.previous.calls = <<ProfileCall(session)>>

StoreWhole(store) ==
    \/ store.auth_user = NullUser /\ store.auth_session = NullSession
    \/ /\ store.auth_user # NullUser
       /\ store.auth_session # NullSession
       /\ store.auth_session.uid = store.auth_user

\* C14: at whatever point of setAuth, restoreAuth or clearAuth the process
\* stops, the two slots hold a complete bundle or are both absent: no step
\* takes a store holding a complete bundle (or nothing) to one with exactly
\* one slot present or with the user of one bundle and the session of another.
C14_SlotsNeverPartial == [][StoreWhole(secureStore) => StoreWhole(secureStore')]_vars

\* exactly one of the two slots is present
OneSlotOnly(store) == (store.auth_user = NullUser) # (store.auth_session = NullSession)

\* C15: a restoreAuth that found exactly one of the two slots present (a
\* user without a session, or a session without a user) completes with both
\* slots absent and the state unauthenticated, even when the lone session is
\* not expired.
C15_OneSlotIsInvalid ==
    [][(restore.pc # "done" /\ restore'.pc = "done" /\ OneSlotOnly(restore.found))
          => (StoreAbsent' /\ Unauthenticated')]_vars

\* C16: when the profile lookup fails, for a session that was not expired
\* and for a refreshed one alike, validateAndRefreshSession returns the null
\* outcome to restoreAuth (which continues in its else branch) and raises
\* no error (restoreAuth's catch block is not entered).
C16_ProfileFailureReturnsNull ==
    [][(restore.pc = "profile" /\ restore'.failure = "profile")
          => (restore'.pc = "deleteUser" /\ restore'.session = NullSession)]_vars

\* ------------------------------------------------------------------------
\* Claims about settling like mutations and about view mutations
\* ------------------------------------------------------------------------

\* C17: when a toggle-like mutation settles, on success and on failure
\* alike, all video list keys are invalidated and so is the detail key of the
\* video (a detail key with no cache entry is fetched on its next read anyway).
C17_SettleInvalidates ==
    [][\A t \in BagToSet(toggles) :
          toggles' = Remove(toggles, t)
          => /\ listInvalidated'
             /\ detail'[t.videoId].present => detailInvalidated'[t.videoId]]_vars

C17_Witness ==
    /\ toggles = EmptyBag
    /\ increments = EmptyBag
    /\ mutationsStarted = 2
    /\ ~rolledBack
    /\ listInvalidated
    /\ \A v \in CachedVideos :
          /\ detail[v].present
          /\ detailInvalidated[v]
          /\ server[v].likes = list[v].likes + 1
          /\ detail[v].likes = server[v].likes

\* the step in which toggle t has failed for good: onError and onSettled run
ToggleFails(t) ==
    /\ t.phase \in {"read", "write"}
    /\ t.failureCount = MutationRetry
    /\ toggles' = Remove(toggles, t)

\* C18: when a toggle-like mutation fails, the like indicator of the video
\* is back at its value from before the press, the cached like count is back
\* at the snapshot, and an error notification is shown.
C18_FailureRevertsUI ==
    [][\A t \in BagToSet(toggles) :
          ToggleFails(t)
          => /\ isLiked'[t.videoId] = t.liked
             /\ t.context.present => detail'[t.videoId] = t.context
             /\ toastsShown' = toastsShown + 1]_vars

\* the step in which view increment i has failed for good: onError runs
IncrementFails(i) ==
    /\ i.phase \in {"read", "write"}
    /\ i.failureCount = MutationRetry
    /\ increments' = Remove(increments, i)

\* C19: a failed view increment is silent: it writes, rolls back and
\* invalidates no cache entry, shows no toast, and leaves activeVideoIndex
\* and the rendering of the feed cells unchanged.
C19_IncrementFailureSilent ==
    [][\A i \in BagToSet(increments) :
          IncrementFails(i)
          => UNCHANGED <<detail, detailInvalidated, list, listInvalidated, toastsShown,
                         isLiked, activeVideoIndex, rendered>>]_vars

C19_Witness ==
    /\ mutationsStarted = 1
    /\ increments = EmptyBag
    /\ toggles = EmptyBag
    /\ toastsShown = 0
    /\ ~listInvalidated
    /\ \A v \in CachedVideos :
          /\ ~isLiked[v]
          /\ ~detail[v].present
          /\ server[v].views = 0
          /\ list[v] = Entry(server[v])

\* the views of a video as the client holds them: the detail entry when it
\* is cached, else the list row
LocalViews(v) == IF detail[v].present THEN detail[v].views ELSE list[v].views

\* C20: a view increment is optimistic: as soon as mutate(id) has been
\* called, before the gateway call resolves, the views the client holds for
\* the video is one more than before.
C20_OptimisticViewVisible ==
    [][\A v \in CachedVideos :
          increments' = increments (+) SetToBag({Increment("read", v)})
          => LocalViews(v)' = LocalViews(v) + 1]_vars

\* ------------------------------------------------------------------------
\* Claims about the counters of a video
\* ------------------------------------------------------------------------

\* C21: likes never go below 0: the likes toggleLike writes to the backend
\* and the optimistic likes written to the cache are >= 0 after every
\* sequence of toggles, and un-liking a video whose likes is 0 writes 0.
C21_LikesNeverNegative ==
    /\ [](\A v \in CachedVideos :
            server[v].likes >= 0 /\ detail[v].likes >= 0 /\ list[v].likes >= 0)
    /\ [][\A t \in BagToSet(toggles) :
            (t.phase = "write" /\ t.liked /\ t.readLikes = 0
                /\ toggles' = Replace(toggles, t, [t EXCEPT !.phase = "written"]))
            => server'[t.videoId].likes = 0]_vars

C21_Witness ==
    \E t \in BagToSet(toggles) :
        /\ t.phase = "written"
        /\ t.liked
        /\ t.readLikes = 0
        /\ server[t.videoId].likes = 0

\* C22: the stored and the cached views and likes of a video never become
\* smaller: no step of an incrementViews or toggleLike call, optimistic
\* write or rollback lowers a value the backend or the cache held before.
C22_CountersMonotonic ==
    [][\A v \in CachedVideos :
          /\ server'[v].likes >= server[v].likes
          /\ server'[v].views >= server[v].views
          /\ list'[v].likes >= list[v].likes
          /\ list'[v].views >= list[v].views
          /\ (detail[v].present /\ detail'[v].present)
                => (detail'[v].likes >= detail[v].likes
                      /\ detail'[v].views >= detail[v].views)]_vars

\* C23: incrementViews reads and then writes: as long as no two calls have
\* overlapped, the stored views is the number of calls that succeeded; in
\* general it is at least 1 and at most that number, so after two successful
\* calls that overlapped it is initial + 1 (lost update) or initial + 2.
C23_ViewsReadThenWrite ==
    \A v \in CachedVideos :
        /\ ~overlapping => server[v].views = successes
        /\ successes >= 1 => (1 <= server[v].views /\ server[v].views <= successes)
        /\ successes = 2 => server[v].views \in {1, 2}

C23_Witness ==
    /\ overlapping
    /\ successes = 2
    /\ increments = EmptyBag
    /\ \A v \in CachedVideos : server[v].views = 1

\* a like mutation on v has written its optimistic likes and has not settled
OptimisticInFlight(v) ==
    \E t \in BagToSet(toggles) :
        /\ t.videoId = v
        /\ t.phase \in {"read", "write", "written"}
        /\ t.context.present

\* the step in which the response of view increment i is committed (onSuccess)
IncrementCommits(i) ==
    /\ i.phase = "written"
    /\ increments' = Remove(increments, i)

KeepsOptimisticLikes ==
    [][\A i \in BagToSet(increments) :
          (IncrementCommits(i) /\ OptimisticInFlight(i.videoId))
          => detail'[i.videoId].likes = detail[i.videoId].likes]_vars

KeepsNewerViews ==
    [][\A i \in BagToSet(increments) :
          (IncrementCommits(i) /\ detail[i.videoId].present)
          => detail'[i.videoId].views >= detail[i.videoId].views]_vars

\* C24: the response of an older request does not overwrite a newer value
\* of the same cache key: a view-increment response committed while a like
\* mutation is in flight leaves the optimistic likes of the detail entry in
\* place, and a view-increment response never lowers the cached views.
C24_NoStaleOverwrite == KeepsOptimisticLikes /\ KeepsNewerViews

\* ------------------------------------------------------------------------
\* Claims about the leaderboard
\* ------------------------------------------------------------------------

\* C25: once leaderboard entries have been fetched, a refetch that fails
\* (after its retries) leaves the fetched entries in the cache and on the
\* screen: the screen shows the list, never the error state or the spinner.
C25_RefetchFailureKeepsEntries ==
    /\ [](leaderboard.hasData => LeaderboardView = "list")
    /\ [][(leaderboard.hasData /\ leaderboard.fetchStatus = "fetching"
              /\ leaderboard'.fetchStatus = "idle" /\ leaderboard'.status = "error")
            => (/\ leaderboard'.hasData
                /\ leaderboard'.data = leaderboard.data
                /\ LeaderboardView' = "list")]_vars

C25_Witness ==
    /\ leaderboard.hasData
    /\ leaderboard.status = "error"
    /\ leaderboard.error
    /\ leaderboard.fetchStatus = "idle"
    /\ leaderboard.data # board
    /\ LeaderboardView = "list"

\* ------------------------------------------------------------------------
\* Claims about overlapping operations
\* ------------------------------------------------------------------------

\* C26: when two like mutations on a video overlap and both fail (and
\* nothing else has written the entry meanwhile), the cached likes after the
\* second rollback is the likes the entry held before the first of the two.
C26_OverlappingRollbacks ==
    [][\A t \in BagToSet(toggles) :
          (/\ ToggleFails(t)
           /\ Active(toggles') = 0
           /\ group.size = 2
           /\ group.clean
           /\ group.base[t.videoId].present)
          => detail'[t.videoId].likes = group.base[t.videoId].likes]_vars

\* ------------------------------------------------------------------------
\* Further claims about the auth store
\* ------------------------------------------------------------------------

\* C27: every call of restoreAuth eventually finishes with isLoading false,
\* provided each storage and network call it awaits returns or fails: the
\* splash screen is not shown forever.
C27_RestoreTerminates ==
    /\ <>(restore.pc = "done")
    /\ (restore.pc # "done") ~> (restore.pc = "done" /\ ~isLoading /\ Navigator # "Splash")

C27_Witness ==
    /\ restore.pc = "done"
    /\ restore.run = 2
    /\ restore.failure = "profile"
    /\ ~isLoading
    /\ Navigator = "Auth"

C29_UnauthenticatedHasNoUser ==
    (~isAuthenticated /\ ~isLoading) => (user = NullUser /\ session = NullSession)

\* C30: in every reachable state of the auth store, after any sequence of
\* setAuth, clearAuth, restoreAuth and setLoading calls, isAuthenticated is
\* true exactly when user and session are both non-null.
C30_AuthenticatedIffBoth ==
    isAuthenticated <=> (user # NullUser /\ session # NullSession)

C30_Witness ==
    /\ restore.pc = "done"
    /\ opsStarted >= 2
    /\ isLoading
    /\ isAuthenticated
    /\ user # NullUser
    /\ session # NullSession
====
